---- MODULE Spec2Model ----
(***************************************************************************)
(* pypekit: type-driven pipeline synthesis (Repository) and cached         *)
(* execution (CachedExecutor), modelled from src/src/pypekit/core.py.      *)
(*                                                                         *)
(* Objects are modelled by value.  A Node object is identified by the      *)
(* build_tree call that created it (gen) and the sequence of task classes  *)
(* from the root down to it (path); its task and its parent are read off   *)
(* that identity.  A task class is a number 1..NumTasks, the sentinel Root  *)
(* task is 0.                                                              *)
(***************************************************************************)
EXTENDS Integers, Sequences, FiniteSets, TLC

\* ---- bounds ----
NumTasks == 3
MaxBuilds == 2
MaxPipeLen == 2
MaxSupplied == 2
MaxDepthArg == 1
MaxPipelines == 2
MaxRuns == 2

\* ---- program constants ----
SOURCE_TYPE == "source"
SINK_TYPE == "sink"
recursionlimit == 1000

Root == 0
TaskClasses == 1..NumTasks

\* the task definitions a repository is filled from: what a task class declares
\* as its input_types and output_types
TaskMenu ==
    << [input_types |-> {SOURCE_TYPE}, output_types |-> {"x"}],
       [input_types |-> {SOURCE_TYPE}, output_types |-> {SINK_TYPE}],
       [input_types |-> {SOURCE_TYPE}, output_types |-> {"x", SINK_TYPE}],
       [input_types |-> {"x"}, output_types |-> {"x"}],
       [input_types |-> {"x"}, output_types |-> {SINK_TYPE}],
       [input_types |-> {"x"}, output_types |-> {"x", SINK_TYPE}] >>

VARIABLES
    input_types,    \* task class -> set of input types
    output_types,   \* task class -> set of output types
    task_classes,   \* Repository.task_classes
    set_order,      \* the order in which this process iterates a set of task classes
    root,           \* Repository.root (NoneNode when None)
    children,       \* Node.children of every live node
    leaves,         \* Repository.leaves
    pipelines,      \* Repository.pipelines
    nbuilds,        \* number of build_tree calls so far (names the Node objects)
    lastCall,       \* the last Repository method called
    treeRet,        \* outcome of the last build_tree call
    pipeRet,        \* outcome of the last build_pipelines call
    ex_pipelines,   \* CachedExecutor.pipelines: the task identities of each pipeline
    failing,        \* the task identities whose run() raises
    seed,           \* the cache handed to CachedExecutor.__init__
    cache,          \* CachedExecutor.cache: signature -> [output, runtime]
    results,        \* CachedExecutor.results: pipeline id -> result record
    task_run_config,\* the run_config attribute of every task instance
    log,            \* what each task instance was asked to do, in order
    nruns,          \* number of CachedExecutor.run calls so far
    runRet,         \* arguments and outcome of the last run call
    pl_tasks,       \* Pipeline.tasks of a pipeline assembled by hand
    pl_cfg,         \* the run_config attribute of each of its task instances
    plRet,          \* arguments and outcome of the last call on that pipeline
    nodeRet,        \* arguments and outcome of the last Node.add_child call made by hand
    supplied,       \* the task definitions handed to a repository, in the order written
    task_dict,      \* Repository._task_dict of src/pypekit.py: the registered names, in order
    regRet          \* arguments and outcome of the last registration

repoVars == <<input_types, output_types, task_classes, set_order, root, children, leaves,
              pipelines, nbuilds, lastCall, treeRet, pipeRet>>

execVars == <<ex_pipelines, failing, seed, cache, results, task_run_config, log, nruns, runRet>>

pipeVars == <<pl_tasks, pl_cfg, plRet>>

regVars == <<supplied, task_dict, regRet>>

extVars == <<pipeVars, nodeRet, regVars>>

vars == <<repoVars, execVars, extVars>>

\* ---- helpers for Python lists and sets ----
Range(s) == {s[i] : i \in 1..Len(s)}

InSeq(x, s) == \E i \in 1..Len(s) : s[i] = x

\* list.remove(x): drops the first occurrence
ListRemove(s, x) ==
    IF ~InSeq(x, s) THEN s
    ELSE LET k == CHOOSE i \in 1..Len(s) : s[i] = x /\ \A j \in 1..(i-1) : s[j] # x
         IN SubSeq(s, 1, k-1) \o SubSeq(s, k+1, Len(s))

\* tasks[1:]
Slice1(s) == IF s = <<>> THEN <<>> ELSE Tail(s)

\* iterating a set of task classes: the order is the hash order of the process,
\* here ascending or descending in the class numbers
RECURSIVE SetIter(_)
SetIter(S) ==
    IF S = {} THEN <<>>
    ELSE LET m == CHOOSE a \in S : \A b \in S : IF set_order = "asc" THEN a <= b ELSE a >= b
         IN <<m>> \o SetIter(S \ {m})

\* ---- Task, Root ----
InputTypes(t) == IF t = Root THEN {} ELSE input_types[t]

OutputTypes(t) == IF t = Root THEN {SOURCE_TYPE} ELSE output_types[t]

\* ---- Node ----
NoneNode == [gen |-> 0, path |-> <<>>]

NodeTask(node) == IF node.path = <<>> THEN Root ELSE node.path[Len(node.path)]

NodeParent(node) ==
    IF node.path = <<>> THEN NoneNode
    ELSE [gen |-> node.gen, path |-> SubSeq(node.path, 1, Len(node.path) - 1)]

\* add_child without the test of the types
add_child_nocheck(st, node, child) == [st EXCEPT !.children[node] = Append(@, child)]

\* Node.add_child on the tree under construction, st = [children, leaves, exc]
add_child(st, node, child) ==
    IF OutputTypes(NodeTask(node)) \cap InputTypes(NodeTask(child)) = {}
    THEN [st EXCEPT !.exc = "ValueError: child cannot be added"]
    ELSE [st EXCEPT !.children[node] = Append(@, child)]

\* ---- Repository: tree synthesis ----
NoExc == "none"

RECURSIVE build_tree_recursive(_, _, _, _, _)
RECURSIVE build_tree_loop(_, _, _, _, _, _, _)
\* _build_tree_recursive with the depth test off by one (depth >= max_depth)
build_tree_recursive_offbyone(st, node, visited_nodes, depth, max_depth) ==
    IF depth >= max_depth
    THEN [st EXCEPT !.leaves = Append(@, node)]
    ELSE LET next_task_classes ==
                 SelectSeq(SetIter(task_classes \ visited_nodes),
                           LAMBDA tc : OutputTypes(NodeTask(node)) \cap InputTypes(tc) # {})
             st1 == IF next_task_classes = <<>>
                    THEN [st EXCEPT !.leaves = Append(@, node)]
                    ELSE st
         IN build_tree_loop(st1, node, next_task_classes, 1, visited_nodes, depth, max_depth)

\* Repository._build_tree_recursive; st = [children, leaves, exc]
build_tree_recursive(st, node, visited_nodes, depth, max_depth) ==
    IF depth > max_depth
    THEN [st EXCEPT !.leaves = Append(@, node)]
    ELSE LET available_task_classes == task_classes \ visited_nodes
             next_task_classes ==
                 SelectSeq(SetIter(available_task_classes),
                           LAMBDA tc : OutputTypes(NodeTask(node)) \cap InputTypes(tc) # {})
             st1 == IF next_task_classes = <<>>
                    THEN [st EXCEPT !.leaves = Append(@, node)]
                    ELSE st
         IN build_tree_loop(st1, node, next_task_classes, 1, visited_nodes, depth, max_depth)

\* the for loop of _build_tree_recursive when the second task of a path is not
\* entered into the visited set
build_tree_loop_forgetsecond(st, node, next_task_classes, i, visited_nodes, depth, max_depth) ==
    IF i > Len(next_task_classes) \/ st.exc # NoExc
    THEN st
    ELSE LET task_class == next_task_classes[i]
             new_node == [gen |-> node.gen, path |-> Append(node.path, task_class)]
             st1 == [st EXCEPT !.children = (new_node :> <<>>) @@ @]
             st2 == add_child(st1, node, new_node)
             st3 == IF st2.exc # NoExc THEN st2
                    ELSE build_tree_recursive(
                             st2, new_node,
                             IF depth = 1 THEN visited_nodes ELSE visited_nodes \cup {task_class},
                             depth + 1, max_depth)
         IN build_tree_loop(st3, node, next_task_classes, i + 1, visited_nodes, depth, max_depth)

\* the for loop of _build_tree_recursive, from its i-th iteration on
build_tree_loop(st, node, next_task_classes, i, visited_nodes, depth, max_depth) ==
    IF i > Len(next_task_classes) \/ st.exc # NoExc
    THEN st
    ELSE LET task_class == next_task_classes[i]
             new_node == [gen |-> node.gen, path |-> Append(node.path, task_class)]
             st1 == [st EXCEPT !.children = (new_node :> <<>>) @@ @]
             st2 == add_child(st1, node, new_node)
             st3 == IF st2.exc # NoExc THEN st2
                    ELSE build_tree_recursive(st2, new_node, visited_nodes \cup {task_class},
                                              depth + 1, max_depth)
         IN build_tree_loop(st3, node, next_task_classes, i + 1, visited_nodes, depth, max_depth)

RECURSIVE prune_tree_recursive(_, _)
\* _prune_tree_recursive without the test for "sink": every childless node goes
prune_tree_recursive_nosink(st, node) ==
    LET st1 == IF st.children[node] = <<>> /\ ~InSeq(node, st.leaves)
               THEN [st EXCEPT !.leaves = Append(@, node)]
               ELSE st
    IN IF st1.children[node] = <<>>
       THEN LET st2 == [st1 EXCEPT !.leaves = ListRemove(@, node)]
            IN IF NodeParent(node) # NoneNode
               THEN LET st3 == [st2 EXCEPT !.children[NodeParent(node)] = ListRemove(@, node)]
                    IN prune_tree_recursive(st3, NodeParent(node))
               ELSE st2
       ELSE st1

\* _prune_tree_recursive as a filter of the leaves: the parent of a removed
\* node is not looked at
prune_tree_recursive_noparent(st, node) ==
    LET st1 == IF st.children[node] = <<>> /\ ~InSeq(node, st.leaves)
               THEN [st EXCEPT !.leaves = Append(@, node)]
               ELSE st
    IN IF SINK_TYPE \notin OutputTypes(NodeTask(node)) /\ st1.children[node] = <<>>
       THEN LET st2 == [st1 EXCEPT !.leaves = ListRemove(@, node)]
            IN IF NodeParent(node) # NoneNode
               THEN [st2 EXCEPT !.children[NodeParent(node)] = ListRemove(@, node)]
               ELSE st2
       ELSE st1

\* Repository._prune_tree_recursive
prune_tree_recursive(st, node) ==
    LET st1 == IF st.children[node] = <<>> /\ ~InSeq(node, st.leaves)
               THEN [st EXCEPT !.leaves = Append(@, node)]
               ELSE st
    IN IF SINK_TYPE \notin OutputTypes(NodeTask(node)) /\ st1.children[node] = <<>>
       THEN LET st2 == [st1 EXCEPT !.leaves = ListRemove(@, node)]
            IN IF NodeParent(node) # NoneNode
               THEN LET st3 == [st2 EXCEPT !.children[NodeParent(node)] = ListRemove(@, node)]
                    IN prune_tree_recursive(st3, NodeParent(node))
               ELSE st2
       ELSE st1

RECURSIVE prune_tree_loop(_, _, _)
\* Repository._prune_tree: for node in self.leaves.copy()
prune_tree_loop(st, copy, i) ==
    IF i > Len(copy) THEN st
    ELSE prune_tree_loop(prune_tree_recursive(st, copy[i]), copy, i + 1)

prune_tree(st) == prune_tree_loop(st, st.leaves, 1)

RECURSIVE Attached(_, _, _)
\* node is reachable from the root r through the children lists ch
Attached(ch, r, node) ==
    \/ node = r
    \/ /\ node.path # <<>>
       /\ NodeParent(node) \in DOMAIN ch
       /\ InSeq(node, ch[NodeParent(node)])
       /\ Attached(ch, r, NodeParent(node))

\* the Node objects still referenced from the repository: the tree under
\* self.root and the nodes of self.leaves
Live(ch, r, lv) == {n \in DOMAIN ch : InSeq(n, lv) \/ (r # NoneNode /\ Attached(ch, r, n))}

Restrict(f, S) == [n \in S |-> f[n]]

EmptyTreeError == "ValueError: Tree is empty"

\* build_tree that leaves self.root in place when it raises
build_tree_keeproot(max_depth) ==
    LET new_root == [gen |-> nbuilds + 1, path |-> <<>>]
        st0 == [children |-> (new_root :> <<>>) @@ Restrict(children, Range(leaves)),
                leaves |-> leaves, exc |-> NoExc]
        st1 == build_tree_recursive(st0, new_root, {}, 0, max_depth)
        st2 == IF st1.exc # NoExc THEN st1 ELSE prune_tree(st1)
        exc == IF st2.exc # NoExc THEN st2.exc
               ELSE IF st2.leaves = <<>> THEN EmptyTreeError ELSE NoExc
    IN [root |-> new_root,
        children |-> Restrict(st2.children, Live(st2.children, new_root, st2.leaves)),
        leaves |-> st2.leaves,
        exc |-> exc]

\* Repository.build_tree, as a function of the repository fields
build_tree(max_depth) ==
    LET new_root == [gen |-> nbuilds + 1, path |-> <<>>]
        st0 == [children |-> (new_root :> <<>>) @@ Restrict(children, Range(leaves)),
                leaves |-> leaves, exc |-> NoExc]
        st1 == build_tree_recursive(st0, new_root, {}, 0, max_depth)
        st2 == IF st1.exc # NoExc THEN st1 ELSE prune_tree(st1)
        exc == IF st2.exc # NoExc THEN st2.exc
               ELSE IF st2.leaves = <<>> THEN EmptyTreeError ELSE NoExc
        r == IF exc = EmptyTreeError THEN NoneNode ELSE new_root
    IN [root |-> r,
        children |-> Restrict(st2.children, Live(st2.children, r, st2.leaves)),
        leaves |-> st2.leaves,
        exc |-> exc]

\* ---- Pipeline ----
\* Pipeline.output_types of a task list
PipelineOutputTypes(tasks) == IF tasks = <<>> THEN {} ELSE OutputTypes(tasks[Len(tasks)])

\* Pipeline.input_types of a task list
PipelineInputTypes(tasks) == IF tasks = <<>> THEN {} ELSE InputTypes(tasks[1])

TypeMismatchError == "ValueError: task cannot be added to the pipeline"

\* _add_task without the test of the types
Pipeline_add_task_nocheck(p, task) == [p EXCEPT !.tasks = Append(@, task)]

\* Pipeline._add_task; p = [tasks, exc]
Pipeline_add_task(p, task) ==
    IF InputTypes(task) \cap PipelineOutputTypes(p.tasks) # {} \/ p.tasks = <<>>
    THEN [p EXCEPT !.tasks = Append(@, task)]
    ELSE [p EXCEPT !.exc = TypeMismatchError]

RECURSIVE Pipeline_add_tasks(_, _, _)
\* Pipeline.add_tasks, from the i-th task on; stops at the first error
Pipeline_add_tasks(p, tasks, i) ==
    IF i > Len(tasks) \/ p.exc # NoExc THEN p
    ELSE Pipeline_add_tasks(Pipeline_add_task(p, tasks[i]), tasks, i + 1)

\* Pipeline.__init__
Pipeline_init(tasks) == Pipeline_add_tasks([tasks |-> <<>>, exc |-> NoExc], tasks, 1)

\* ---- Repository: pipeline enumeration ----
RECURSIVE build_pipelines_recursive(_, _, _)
RECURSIVE build_pipelines_loop(_, _, _, _)
\* Repository._build_pipelines_recursive; acc = [pipelines, exc]
build_pipelines_recursive(acc, node, tasks) ==
    IF children[node] = <<>>
    THEN LET p == Pipeline_init(Slice1(tasks) \o <<NodeTask(node)>>)
         IN IF p.exc # NoExc THEN [acc EXCEPT !.exc = p.exc]
            ELSE [acc EXCEPT !.pipelines = Append(@, p.tasks)]
    ELSE build_pipelines_loop(acc, node, tasks, 1)

\* the for loop of _build_pipelines_recursive, from its i-th iteration on
build_pipelines_loop(acc, node, tasks, i) ==
    IF i > Len(children[node]) \/ acc.exc # NoExc THEN acc
    ELSE build_pipelines_loop(
             build_pipelines_recursive(acc, children[node][i], Append(tasks, NodeTask(node))),
             node, tasks, i + 1)

NotBuiltError == "ValueError: Tree has not been built yet"

\* Repository.build_pipelines, as a function of the repository fields
build_pipelines ==
    IF root = NoneNode
    THEN [pipelines |-> pipelines, exc |-> NotBuiltError]
    ELSE build_pipelines_recursive([pipelines |-> <<>>, exc |-> NoExc], root, <<>>)

\* ---- the earlier Repository (src/pypekit.py) ----
NoSourceTasksError == "ValueError: No source tasks found"

\* Repository._get_source_tasks of src/pypekit.py
get_source_tasks ==
    LET sources == SelectSeq(SetIter(task_classes), LAMBDA t : SOURCE_TYPE \in input_types[t])
    IN [sources |-> sources,
        exc |-> IF sources = <<>> THEN NoSourceTasksError ELSE NoExc]

\* ---- the repository as a state machine ----
NoRet == [exc |-> NoExc, called |-> FALSE, max_depth |-> 0]

NoPipes == [exc |-> NoExc, called |-> FALSE, value |-> <<>>]

\* Repository.__init__ with a set of task classes.  Task classes differ only in
\* what they declare and in their place in the iteration order, so the
\* repositories are enumerated up to renaming: the declarations in menu order,
\* the iteration order either way.
RepoInit ==
    /\ \E pick \in [TaskClasses -> 1..Len(TaskMenu)] :
          /\ \A a, b \in TaskClasses : a < b => pick[a] <= pick[b]
          /\ input_types = [t \in TaskClasses |-> TaskMenu[pick[t]].input_types]
          /\ output_types = [t \in TaskClasses |-> TaskMenu[pick[t]].output_types]
    /\ task_classes = TaskClasses
    /\ set_order \in {"asc", "desc"}
    /\ root = NoneNode
    /\ children = [n \in {} |-> <<>>]
    /\ leaves = <<>>
    /\ pipelines = <<>>
    /\ nbuilds = 0
    /\ lastCall = "__init__"
    /\ treeRet = NoRet
    /\ pipeRet = NoPipes

\* a call repo.build_tree(max_depth)
BuildTreeCall(max_depth) ==
    /\ nbuilds < MaxBuilds
    /\ LET r == build_tree(max_depth)
       IN /\ root' = r.root
          /\ children' = r.children
          /\ leaves' = r.leaves
          /\ treeRet' = [exc |-> r.exc, called |-> TRUE, max_depth |-> max_depth]
    /\ nbuilds' = nbuilds + 1
    /\ lastCall' = "build_tree"
    /\ UNCHANGED <<input_types, output_types, task_classes, set_order, pipelines, pipeRet>>
    /\ UNCHANGED <<execVars, extVars>>

\* repo.build_tree(max_depth) with an explicit max_depth, which is any int: a
\* negative one keeps the root itself from being expanded
BuildTree == \E max_depth \in (0 - 1)..MaxDepthArg : BuildTreeCall(max_depth)

\* repo.build_tree() with the default max_depth = sys.getrecursionlimit()
BuildTreeDefault == BuildTreeCall(recursionlimit)

\* a call repo.build_pipelines()
BuildPipelines ==
    /\ LET r == build_pipelines
       IN /\ pipelines' = r.pipelines
          /\ pipeRet' = [exc |-> r.exc, called |-> TRUE,
                         value |-> IF r.exc = NoExc THEN r.pipelines ELSE <<>>]
    /\ lastCall' = "build_pipelines"
    /\ UNCHANGED <<input_types, output_types, task_classes, set_order, root, children, leaves,
                   nbuilds, treeRet>>
    /\ UNCHANGED <<execVars, extVars>>

\* ---- Task.run of the task implementations ----
\* Python None as an input or output value; values are sequences of the steps
\* that produced them
None == <<>>

NoConfig == "None"

\* Task.run: a pure function of the input and of the run_config attached to the
\* task instance; always a value other than None
TaskRun(task, input_, run_config) == Append(input_, [task |-> task, run_config |-> run_config])

\* an empty dict as run_config
EmptyConfig == "{}"

\* the truth value of a run_config in `if run_config:`
Truthy(run_config) == run_config \notin {NoConfig, EmptyConfig}

RECURSIVE Pipeline_run_loop(_, _, _, _)
\* the for loop of Pipeline.run, from its i-th task on; ps = [cfg, input_, raised]
Pipeline_run_loop(ps, tasks, i, run_config) ==
    IF i > Len(tasks) \/ ps.raised THEN ps
    ELSE LET ps1 == IF Truthy(run_config) THEN [ps EXCEPT !.cfg[i] = run_config] ELSE ps
         IN Pipeline_run_loop(
                IF tasks[i] \in failing
                THEN [ps1 EXCEPT !.raised = TRUE]
                ELSE [ps1 EXCEPT !.input_ = TaskRun(tasks[i], ps1.input_, ps1.cfg[i])],
                tasks, i + 1, run_config)

\* Pipeline.run on a pipeline with the given tasks, whose task instances hold cfg
Pipeline_run(tasks, cfg, input_, run_config) ==
    Pipeline_run_loop([cfg |-> cfg, input_ |-> input_, raised |-> FALSE], tasks, 1, run_config)

\* ---- CachedExecutor ----
NoneTime == 0 - 1

\* utils._stable_hash({"input_": input_, "run_config": run_config})
stable_hash(input_, run_config) == <<input_, run_config>>

\* task.__class__.__name__ of a task instance of an executor's pipeline: "A2"
\* is another A, an instance of class A with a task_config of its own
NameOf(task) == IF task = "A2" THEN "A" ELSE task

\* [task.__class__.__name__ for task in pipeline]
ClassNames(tasks) == [k \in 1..Len(tasks) |-> NameOf(tasks[k])]

\* the signature after the first k tasks of a pipeline
Signature(h, names, k) == [hash |-> h, tasks |-> SubSeq(ClassNames(names), 1, k)]

Has(f, x) == x \in DOMAIN f

RECURSIVE run_pipeline_loop(_, _, _, _, _)
\* the loop of _run_pipeline without the write to self.cache
run_pipeline_loop_nostore(rs, pid, k, h, arg) ==
    LET names == ex_pipelines[pid]
    IN IF k > Len(names) \/ rs.raised THEN rs
       ELSE LET task == names[k]
                rs1 == IF Truthy(arg.run_config)
                       THEN [rs EXCEPT !.cfg[pid][k] = arg.run_config]
                       ELSE rs
                task_signature == Signature(h, names, k)
                event == [run |-> arg.run, pipeline |-> pid, pos |-> k, task |-> task,
                          signature |-> task_signature]
                rs2 ==
                    IF Has(rs1.cache, task_signature)
                    THEN [rs1 EXCEPT
                            !.input_ = rs1.cache[task_signature].output,
                            !.runtime = @ + rs1.cache[task_signature].runtime,
                            !.log = Append(@, event @@ [kind |-> "adopt"])]
                    ELSE IF task \in failing
                    THEN [rs1 EXCEPT
                            !.raised = TRUE,
                            !.log = Append(@, event @@ [kind |-> "raise"])]
                    ELSE [rs1 EXCEPT
                            !.input_ = TaskRun(task, rs1.input_, rs1.cfg[pid][k]),
                            !.runtime = @ + arg.elapsed,
                            !.log = Append(@, event @@ [kind |-> "exec"])]
            IN run_pipeline_loop(rs2, pid, k + 1, h, arg)

\* the loop of _run_pipeline without the lookup in self.cache: every task is
\* executed and stored anew
run_pipeline_loop_overwrite(rs, pid, k, h, arg) ==
    LET names == ex_pipelines[pid]
    IN IF k > Len(names) \/ rs.raised THEN rs
       ELSE LET task == names[k]
                rs1 == IF Truthy(arg.run_config)
                       THEN [rs EXCEPT !.cfg[pid][k] = arg.run_config]
                       ELSE rs
                task_signature == Signature(h, names, k)
                event == [run |-> arg.run, pipeline |-> pid, pos |-> k, task |-> task,
                          signature |-> task_signature]
                rs2 ==
                    IF task \in failing
                    THEN [rs1 EXCEPT
                            !.raised = TRUE,
                            !.log = Append(@, event @@ [kind |-> "raise"])]
                    ELSE LET out == TaskRun(task, rs1.input_, rs1.cfg[pid][k])
                         IN [rs1 EXCEPT
                               !.input_ = out,
                               !.cache = (task_signature :> [output |-> out, runtime |-> arg.elapsed])
                                            @@ @,
                               !.runtime = @ + arg.elapsed,
                               !.log = Append(@, event @@ [kind |-> "exec"])]
            IN run_pipeline_loop(rs2, pid, k + 1, h, arg)

\* the for loop of CachedExecutor._run_pipeline, from its k-th task on;
\* rs = [cache, cfg, log, input_, runtime, raised]
run_pipeline_loop(rs, pid, k, h, arg) ==
    LET names == ex_pipelines[pid]
    IN IF k > Len(names) \/ rs.raised THEN rs
       ELSE LET task == names[k]
                rs1 == IF Truthy(arg.run_config)
                       THEN [rs EXCEPT !.cfg[pid][k] = arg.run_config]
                       ELSE rs
                task_signature == Signature(h, names, k)
                event == [run |-> arg.run, pipeline |-> pid, pos |-> k, task |-> task,
                          signature |-> task_signature]
                rs2 ==
                    IF Has(rs1.cache, task_signature)
                    THEN [rs1 EXCEPT
                            !.input_ = rs1.cache[task_signature].output,
                            !.runtime = @ + rs1.cache[task_signature].runtime,
                            !.log = Append(@, event @@ [kind |-> "adopt"])]
                    ELSE IF task \in failing
                    THEN [rs1 EXCEPT
                            !.raised = TRUE,
                            !.log = Append(@, event @@ [kind |-> "raise"])]
                    ELSE LET out == TaskRun(task, rs1.input_, rs1.cfg[pid][k])
                         IN [rs1 EXCEPT
                               !.input_ = out,
                               !.cache = (task_signature :> [output |-> out, runtime |-> arg.elapsed])
                                            @@ @,
                               !.runtime = @ + arg.elapsed,
                               !.log = Append(@, event @@ [kind |-> "exec"])]
            IN run_pipeline_loop(rs2, pid, k + 1, h, arg)

\* CachedExecutor._run_pipeline on the executor state es = [cache, cfg, log, results, raised]
run_pipeline(es, pid, arg) ==
    LET rs == run_pipeline_loop(
                  [cache |-> es.cache, cfg |-> es.cfg, log |-> es.log,
                   input_ |-> arg.input_, runtime |-> 0, raised |-> FALSE],
                  pid, 1, stable_hash(arg.input_, arg.run_config), arg)
    IN [cache |-> rs.cache, cfg |-> rs.cfg, log |-> rs.log,
        output |-> rs.input_, runtime |-> rs.runtime, raised |-> rs.raised]

RECURSIVE run_loop(_, _, _)
\* the loop of run without the try/except: a raising task ends the batch
run_loop_nocatch(es, i, arg) ==
    IF i > Len(ex_pipelines) \/ es.raised THEN es
    ELSE LET r == run_pipeline(es, i, arg)
             record == [output |-> r.output, runtime |-> r.runtime, tasks |-> ClassNames(ex_pipelines[i])]
         IN run_loop(IF r.raised
                     THEN [es EXCEPT !.cache = r.cache, !.cfg = r.cfg, !.log = r.log,
                                     !.raised = TRUE]
                     ELSE [es EXCEPT !.cache = r.cache, !.cfg = r.cfg, !.log = r.log,
                                     !.results = (i :> record) @@ @],
                     i + 1, arg)

\* the loop of run with every pipeline reading the cache as it was when run
\* was called
run_loop_snapshot(es, i, arg) ==
    IF i > Len(ex_pipelines) \/ es.raised THEN es
    ELSE LET r == run_pipeline([es EXCEPT !.cache = cache], i, arg)
             record == IF r.raised
                       THEN [output |-> None, runtime |-> NoneTime, tasks |-> ClassNames(ex_pipelines[i])]
                       ELSE [output |-> r.output, runtime |-> r.runtime, tasks |-> ClassNames(ex_pipelines[i])]
         IN run_loop([es EXCEPT !.cache = r.cache @@ @, !.cfg = r.cfg, !.log = r.log,
                                !.results = (i :> record) @@ @],
                     i + 1, arg)

\* the for loop of CachedExecutor.run, from its i-th pipeline on
run_loop(es, i, arg) ==
    IF i > Len(ex_pipelines) \/ es.raised THEN es
    ELSE LET r == run_pipeline(es, i, arg)
             record == IF r.raised
                       THEN [output |-> None, runtime |-> NoneTime, tasks |-> ClassNames(ex_pipelines[i])]
                       ELSE [output |-> r.output, runtime |-> r.runtime, tasks |-> ClassNames(ex_pipelines[i])]
         IN run_loop([es EXCEPT !.cache = r.cache, !.cfg = r.cfg, !.log = r.log,
                                !.results = (i :> record) @@ @],
                     i + 1, arg)

EmptyFcn == [x \in {} |-> x]

\* CachedExecutor.run, as a function of the executor fields
run(arg) ==
    run_loop([cache |-> cache, cfg |-> task_run_config, log |-> log,
              results |-> EmptyFcn, raised |-> FALSE], 1, arg)

\* ---- the executor as a state machine ----
\* the pipelines an executor is built over
PipelineMenu == {<<>>, <<"A">>, <<"A2">>, <<"A", "B">>, <<"A", "C">>, <<"A", "B", "C">>}

FailingMenu == {{}, {"A"}, {"B"}}

Inputs == {None, <<[task |-> "input", run_config |-> NoConfig]>>}

Configs == {NoConfig, "cfg"}

\* a cache handed to the constructor (warm start)
SeededCache ==
    Signature(stable_hash(None, NoConfig), <<"A">>, 1)
        :> [output |-> <<[task |-> "seed", run_config |-> NoConfig]>>, runtime |-> 5]

NoRun == [called |-> FALSE, input_ |-> None, run_config |-> NoConfig, run |-> 0,
          elapsed |-> 0, raised |-> FALSE]

\* CachedExecutor.__init__
ExecInit ==
    /\ ex_pipelines \in UNION {[1..n -> PipelineMenu] : n \in 1..MaxPipelines}
    /\ failing \in FailingMenu
    /\ seed \in {EmptyFcn, SeededCache}
    /\ cache = seed
    /\ results = EmptyFcn
    /\ task_run_config = [i \in 1..Len(ex_pipelines) |->
                              [k \in 1..Len(ex_pipelines[i]) |-> NoConfig]]
    /\ log = <<>>
    /\ nruns = 0
    /\ runRet = NoRun

\* no executor: the repository on its own
NoExecutor ==
    /\ ex_pipelines = <<>>
    /\ failing = {}
    /\ seed = EmptyFcn
    /\ cache = EmptyFcn
    /\ results = EmptyFcn
    /\ task_run_config = <<>>
    /\ log = <<>>
    /\ nruns = 0
    /\ runRet = NoRun

\* one fixed repository: the executor on its own
OneRepository ==
    /\ input_types = [t \in TaskClasses |-> TaskMenu[1].input_types]
    /\ output_types = [t \in TaskClasses |-> TaskMenu[1].output_types]
    /\ task_classes = TaskClasses
    /\ set_order = "asc"
    /\ root = NoneNode
    /\ children = [n \in {} |-> <<>>]
    /\ leaves = <<>>
    /\ pipelines = <<>>
    /\ nbuilds = 0
    /\ lastCall = "__init__"
    /\ treeRet = NoRet
    /\ pipeRet = NoPipes

\* time.perf_counter() differences: what a task takes to execute differs from
\* one run to the next
Elapsed(r) == r

\* a call executor.run(input_, run_config); the tasks executed take `elapsed`
RunCall(input_, run_config) ==
    /\ nruns < MaxRuns
    /\ LET arg == [called |-> TRUE, input_ |-> input_, run_config |-> run_config,
                   run |-> nruns + 1, elapsed |-> Elapsed(nruns + 1), raised |-> FALSE]
           es == run(arg)
       IN /\ cache' = es.cache
          /\ task_run_config' = es.cfg
          /\ log' = es.log
          /\ results' = es.results
          /\ runRet' = [arg EXCEPT !.raised = es.raised]
    /\ nruns' = nruns + 1
    /\ UNCHANGED <<ex_pipelines, failing, seed>>
    /\ UNCHANGED <<repoVars, extVars>>

\* executor.run(input_, run_config) with an input
Run == \E run_config \in Configs : RunCall(<<[task |-> "input", run_config |-> NoConfig]>>, run_config)

\* executor.run(run_config=...) with the default input_ = None
RunNoInput == \E run_config \in Configs : RunCall(None, run_config)

\* ---- a Pipeline assembled and run by hand ----
NoPipeCall == [op |-> "__init__", exc |-> NoExc, before |-> <<>>, arg |-> <<>>,
               input_ |-> None, run_config |-> NoConfig, cfg |-> <<>>, value |-> None]

\* Pipeline.__init__ without tasks
PipeInit ==
    /\ pl_tasks = <<>>
    /\ pl_cfg = <<>>
    /\ plRet = NoPipeCall

TaskError == "Exception raised by Task.run"

\* a call pipeline.add_tasks(tasks) with instances of the given task classes
PipelineAddTasksCall(tasks) ==
    /\ Len(pl_tasks) + Len(tasks) <= MaxPipeLen
    /\ LET p == Pipeline_add_tasks([tasks |-> pl_tasks, exc |-> NoExc], tasks, 1)
       IN /\ pl_tasks' = p.tasks
          /\ pl_cfg' = pl_cfg \o [i \in 1..(Len(p.tasks) - Len(pl_tasks)) |-> NoConfig]
          /\ plRet' = [NoPipeCall EXCEPT !.op = "add_tasks", !.exc = p.exc,
                                         !.before = pl_tasks, !.arg = tasks]
    /\ UNCHANGED <<repoVars, execVars, nodeRet, regVars>>

\* pipeline.add_tasks([task, ...])
PipelineAddTasks ==
    \E tasks \in UNION {[1..n -> task_classes] : n \in 1..MaxPipeLen} : PipelineAddTasksCall(tasks)

PipeConfigs == {NoConfig, EmptyConfig, "cfg"}

\* a call pipeline.run(input_, run_config)
PipelineRunCall(input_, run_config) ==
    /\ LET ps == Pipeline_run(pl_tasks, pl_cfg, input_, run_config)
       IN /\ pl_cfg' = ps.cfg
          /\ plRet' = [NoPipeCall EXCEPT !.op = "run",
                                         !.exc = IF ps.raised THEN TaskError ELSE NoExc,
                                         !.input_ = input_, !.run_config = run_config,
                                         !.cfg = pl_cfg,
                                         !.value = IF ps.raised THEN None ELSE ps.input_]
    /\ UNCHANGED <<pl_tasks, repoVars, execVars, nodeRet, regVars>>

\* pipeline.run(input_, run_config)
PipelineRun == \E input_ \in Inputs, run_config \in PipeConfigs : PipelineRunCall(input_, run_config)

\* the tasks a hand-made pipeline draws on: their run() may raise
PipeTasks ==
    /\ ex_pipelines = <<>>
    /\ failing \in {{}, {NumTasks}}
    /\ seed = EmptyFcn
    /\ cache = EmptyFcn
    /\ results = EmptyFcn
    /\ task_run_config = <<>>
    /\ log = <<>>
    /\ nruns = 0
    /\ runRet = NoRun

\* ---- Node.add_child called by hand ----
NoNodeCall == [exc |-> NoExc, called |-> FALSE, node |-> NoneNode, child |-> NoneNode,
               before |-> <<>>]

\* a call node.add_child(Node(task(), parent=node)) on a node of the tree; a
\* Node made by hand goes by gen 0
NodeAddChildCall(node, task) ==
    /\ ~nodeRet.called
    /\ LET child == [gen |-> 0, path |-> Append(node.path, task)]
           st == add_child([children |-> (child :> <<>>) @@ children, leaves |-> leaves,
                            exc |-> NoExc], node, child)
       IN /\ children' = IF st.exc = NoExc THEN st.children
                         ELSE Restrict(st.children, DOMAIN children)
          /\ nodeRet' = [exc |-> st.exc, called |-> TRUE, node |-> node, child |-> child,
                         before |-> children[node]]
    /\ UNCHANGED <<input_types, output_types, task_classes, set_order, root, leaves, pipelines,
                   nbuilds, lastCall, treeRet, pipeRet>>
    /\ UNCHANGED <<execVars, pipeVars, regVars>>

\* node.add_child(child) by the caller, on any node of the tree that was built
NodeAddChild ==
    \E node \in DOMAIN children, task \in task_classes : NodeAddChildCall(node, task)

\* the first repo.build_tree() of a repository
FirstBuildTree == nbuilds = 0 /\ BuildTreeCall(recursionlimit)

\* ---- registration ----
NoReg == [op |-> "none", exc |-> NoExc, arg |-> <<>>, before |-> <<>>]

\* the names task classes go by; two classes may carry the same __name__
TaskNames == <<"A", "B", "C", "D", "E">>

\* task.__class__.__name__
ClassName(task) == TaskNames[(task + 1) \div 2]

\* Repository.__init__ without task classes
EmptyRepository ==
    /\ input_types = [t \in TaskClasses |-> TaskMenu[1].input_types]
    /\ output_types = [t \in TaskClasses |-> TaskMenu[1].output_types]
    /\ task_classes = {}
    /\ set_order = "asc"
    /\ root = NoneNode
    /\ children = [n \in {} |-> <<>>]
    /\ leaves = <<>>
    /\ pipelines = <<>>
    /\ nbuilds = 0
    /\ lastCall = "__init__"
    /\ treeRet = NoRet
    /\ pipeRet = NoPipes
    /\ supplied = <<>>
    /\ task_dict = <<>>
    /\ regRet = NoReg

\* repo = Repository(set(defs)): a new repository over the task classes written
\* in defs
RepositoryInitCall(defs) ==
    /\ task_classes' = Range(defs)
    /\ root' = NoneNode
    /\ children' = [n \in {} |-> <<>>]
    /\ leaves' = <<>>
    /\ pipelines' = <<>>
    /\ nbuilds' = 0
    /\ lastCall' = "__init__"
    /\ treeRet' = NoRet
    /\ pipeRet' = NoPipes
    /\ supplied' = defs
    /\ regRet' = [op |-> "__init__", exc |-> NoExc, arg |-> defs, before |-> <<>>]
    /\ UNCHANGED <<input_types, output_types, set_order, task_dict>>
    /\ UNCHANGED <<execVars, pipeVars, nodeRet>>

\* Repository(task_classes) of src/src/pypekit/core.py
RepositoryInit ==
    \E defs \in UNION {[1..n -> TaskClasses] : n \in 1..MaxSupplied} : RepositoryInitCall(defs)

AlreadyExistsError == "ValueError: Task already exists in repository"

\* Repository._add_task of src/pypekit.py on the dict d, a list of [name, task]
add_task(d, task_name, task) ==
    IF \E i \in 1..Len(d) : d[i].name = task_name
    THEN [dict |-> d, exc |-> AlreadyExistsError]
    ELSE [dict |-> Append(d, [name |-> task_name, task |-> task]), exc |-> NoExc]

\* a call fill_repository([(task_name, task)]) on a Repository of src/pypekit.py
FillRepositoryCall(task_name, task) ==
    /\ Len(task_dict) < MaxSupplied \/ \E i \in 1..Len(task_dict) : task_dict[i].name = task_name
    /\ LET r == add_task(task_dict, task_name, task)
       IN /\ task_dict' = r.dict
          /\ regRet' = [op |-> "_add_task", exc |-> r.exc,
                        arg |-> <<[name |-> task_name, task |-> task]>>, before |-> task_dict]
    /\ UNCHANGED <<repoVars, execVars, pipeVars, nodeRet, supplied>>

\* fill_repository with one (name, task) tuple
FillRepository ==
    \E task_name \in {ClassName(t) : t \in TaskClasses}, task \in TaskClasses :
        FillRepositoryCall(task_name, task)

\* the task classes as written by the caller, one definition each
AsWritten ==
    /\ supplied = [i \in 1..NumTasks |-> i]
    /\ task_dict = <<>>
    /\ regRet = NoReg

\* ---- the state machines ----
Init == RepoInit /\ NoExecutor /\ PipeInit /\ nodeRet = NoNodeCall /\ AsWritten

Next == BuildTree \/ BuildTreeDefault \/ BuildPipelines

Spec == Init /\ [][Next]_vars

InitExec == OneRepository /\ ExecInit /\ PipeInit /\ nodeRet = NoNodeCall /\ AsWritten

NextExec == Run \/ RunNoInput

SpecExec == InitExec /\ [][NextExec]_vars

InitPipe == RepoInit /\ set_order = "asc" /\ PipeTasks /\ PipeInit /\ nodeRet = NoNodeCall
            /\ AsWritten

NextPipe == PipelineAddTasks \/ PipelineRun

SpecPipe == InitPipe /\ [][NextPipe]_vars

InitReg == EmptyRepository /\ NoExecutor /\ PipeInit /\ nodeRet = NoNodeCall

NextReg == RepositoryInit \/ FillRepository

SpecReg == InitReg /\ [][NextReg]_vars

InitNode == Init /\ set_order = "asc"

NextNode == FirstBuildTree \/ NodeAddChild

SpecNode == InitNode /\ [][NextNode]_vars

\* ---- vocabulary of the properties ----
\* sequences of pairwise distinct task classes
DistinctSeqs ==
    {c \in UNION {[1..n -> task_classes] : n \in 1..Cardinality(task_classes)} :
        \A i, j \in 1..Len(c) : i # j => c[i] # c[j]}

Compatible(a, b) == OutputTypes(a) \cap InputTypes(b) # {}

\* a chain that starts at "source", is type-compatible step by step and ends at "sink"
LegalChain(c) ==
    /\ SOURCE_TYPE \in InputTypes(c[1])
    /\ \A i \in 1..(Len(c) - 1) : Compatible(c[i], c[i + 1])
    /\ SINK_TYPE \in OutputTypes(c[Len(c)])

LegalChains(max_depth) == {c \in DistinctSeqs : LegalChain(c) /\ Len(c) <= max_depth + 1}

ProperPrefix(c, d) == Len(c) < Len(d) /\ SubSeq(d, 1, Len(c)) = c

NoDuplicates(s) == \A i, j \in 1..Len(s) : i # j => s[i] # s[j]

TreeOk == treeRet.called /\ treeRet.exc = NoExc

Returned == lastCall = "build_pipelines" /\ pipeRet.exc = NoExc

\* C1: after a successful build_tree every pipeline returned by build_pipelines
\* starts with a task accepting "source" and ends with a task producing "sink"
C1_SourceToSink ==
    (Returned /\ TreeOk) =>
        \A i \in 1..Len(pipeRet.value) :
            LET p == pipeRet.value[i]
            IN /\ p # <<>>
               /\ SOURCE_TYPE \in InputTypes(p[1])
               /\ SINK_TYPE \in OutputTypes(p[Len(p)])

\* C2 (as stated): every legal chain of at most max_depth+1 distinct tasks is
\* returned as a pipeline
C2_EveryLegalChain ==
    (lastCall = "build_pipelines" /\ treeRet.called) =>
        \A c \in LegalChains(treeRet.max_depth) :
            pipeRet.exc = NoExc /\ InSeq(c, pipeRet.value)

\* C2 (amended): a legal chain of at most max_depth+1 distinct tasks is returned
\* as a pipeline exactly when no longer legal chain within the bound extends it
C2_EveryMaximalLegalChain ==
    (lastCall = "build_pipelines" /\ treeRet.called) =>
        LET legal == LegalChains(treeRet.max_depth)
        IN \A c \in legal :
              (pipeRet.exc = NoExc /\ InSeq(c, pipeRet.value))
                  <=> ~ \E d \in legal : ProperPrefix(c, d)

C2_Witness ==
    /\ Returned /\ TreeOk
    /\ \E c, d \in LegalChains(treeRet.max_depth) :
          /\ ProperPrefix(c, d)
          /\ InSeq(d, pipeRet.value)
          /\ ~InSeq(c, pipeRet.value)

\* C3: with a source task and a sink task reachable from it, build_tree with the
\* default max_depth succeeds and build_pipelines returns at least one pipeline
C3_DefaultDepthFindsPipeline ==
    (treeRet.called /\ treeRet.max_depth = recursionlimit /\ LegalChains(recursionlimit) # {}) =>
        /\ treeRet.exc = NoExc
        /\ root # NoneNode
        /\ lastCall = "build_pipelines" => (pipeRet.exc = NoExc /\ Len(pipeRet.value) >= 1)

C3_Witness ==
    /\ Returned /\ TreeOk
    /\ treeRet.max_depth = recursionlimit
    /\ \E c \in LegalChains(recursionlimit) : Len(c) = NumTasks /\ InSeq(c, pipeRet.value)

\* C4: no task class occurs twice in a returned pipeline, nor on a root-to-node
\* path of the tree
C4_NoRepetition ==
    /\ \A n \in DOMAIN children : NoDuplicates(n.path)
    /\ \A i \in 1..Len(pipelines) : NoDuplicates(pipelines[i])
    /\ \A i \in 1..Len(pipeRet.value) : NoDuplicates(pipeRet.value[i])

\* a returned pipeline holding a task whose output matches its own input, next
\* to another task it is compatible with in both directions
C4_Witness ==
    /\ Returned
    /\ \E i \in 1..Len(pipeRet.value) :
          LET p == pipeRet.value[i]
          IN \E j, k \in 1..Len(p) :
                /\ j < k
                /\ Compatible(p[k], p[k])
                /\ Compatible(p[k], p[j])

\* C7: a repository without a task accepting "source" fails build_tree with a
\* "no entry points" condition of its own, not with the "empty tree" condition
C7_NoEntryPointsCondition ==
    (lastCall = "build_tree" /\ get_source_tasks.exc = NoSourceTasksError) =>
        /\ treeRet.exc = NoSourceTasksError
        /\ treeRet.exc # EmptyTreeError

\* C8: build_tree raises the "empty tree" error and leaves root None whenever no
\* legal chain of at most max_depth+1 tasks exists
C8_EmptyTreeFails ==
    (lastCall = "build_tree" /\ LegalChains(treeRet.max_depth) = {}) =>
        /\ treeRet.exc = EmptyTreeError
        /\ root = NoneNode

\* C9: build_pipelines raises "tree not built" and returns nothing when no
\* build_tree was called or the last one raised, and succeeds otherwise
C9_TreeNotBuilt ==
    lastCall = "build_pipelines" =>
        IF TreeOk
        THEN pipeRet.exc = NoExc
        ELSE pipeRet.exc = NotBuiltError /\ pipeRet.value = <<>>

\* build_pipelines called after a build_tree that raised
C9_Witness ==
    /\ lastCall = "build_pipelines"
    /\ treeRet.called
    /\ treeRet.exc = EmptyTreeError
    /\ pipeRet.exc = NotBuiltError

\* C10: every returned pipeline is non-empty and free of the sentinel Root task
C10_NoRootTask ==
    Returned =>
        \A i \in 1..Len(pipeRet.value) :
            pipeRet.value[i] # <<>> /\ ~InSeq(Root, pipeRet.value[i])

\* ---- vocabulary of the executor properties ----
Events == 1..Len(log)

\* the calls of task.run made under signature sig, raising ones included
Executions(sig) == {e \in Events : log[e].signature = sig /\ log[e].kind \in {"exec", "raise"}}

\* the hashes of the (input, run_config) pairs run so far
RanHashes == {log[e].signature.hash : e \in Events}

\* the length of the longest common prefix of two task lists
CommonPrefix(p, q) ==
    LET ks == {k \in 0..Len(p) : k <= Len(q) /\ SubSeq(p, 1, k) = SubSeq(q, 1, k)}
    IN CHOOSE k \in ks : \A l \in ks : l <= k

\* pairs of pipelines of the executor and a task position of their shared prefix
SharedPrefixes ==
    UNION {{<<y[1], y[2], m>> : m \in 1..CommonPrefix(ClassNames(ex_pipelines[y[1]]), ClassNames(ex_pipelines[y[2]]))} :
              y \in {z \in (1..Len(ex_pipelines)) \X (1..Len(ex_pipelines)) : z[1] < z[2]}}

RaisedIn(i) ==
    \E e \in Events : log[e].run = nruns /\ log[e].pipeline = i /\ log[e].kind = "raise"

\* C6: run returns; a pipeline one of whose tasks raised gets the record
\* (None, None, task class names), every other pipeline a normal record
C6_FailureIsolated ==
    runRet.called =>
        /\ ~runRet.raised
        /\ DOMAIN results = 1..Len(ex_pipelines)
        /\ \A i \in 1..Len(ex_pipelines) :
              LET names == ex_pipelines[i]
                  sig == Signature(stable_hash(runRet.input_, runRet.run_config), names, Len(names))
              IN /\ results[i].tasks = ClassNames(names)
                 /\ IF RaisedIn(i)
                    THEN results[i].output = None /\ results[i].runtime = NoneTime
                    ELSE /\ results[i].runtime # NoneTime
                         /\ IF names = <<>>
                            THEN results[i].output = runRet.input_
                            ELSE /\ results[i].output # None
                                 /\ Has(cache, sig)
                                 /\ results[i].output = cache[sig].output

\* a pipeline that failed, followed by a pipeline that got its output
C6_Witness ==
    /\ runRet.called
    /\ \E i, j \in 1..Len(ex_pipelines) :
          /\ i < j
          /\ RaisedIn(i)
          /\ results[i].output = None
          /\ ~RaisedIn(j)
          /\ results[j].output # None

\* ---- C11 ----
\* what add_tasks(arg) leaves in a pipeline that held `before`: the tasks of
\* arg in front of the first one that neither finds the pipeline empty nor
\* accepts an output type of the task before it
Offending(before, arg) ==
    {i \in 1..Len(arg) :
        LET sofar == before \o SubSeq(arg, 1, i - 1)
        IN sofar # <<>> /\ ~Compatible(sofar[Len(sofar)], arg[i])}

\* C11: adding to a non-empty Pipeline a task whose input_types do not
\* intersect the output_types of the current last task fails with the type
\* mismatch error and does not append it, a task added to an empty pipeline is
\* accepted, and so every two consecutive tasks of a Pipeline have intersecting
\* output and input types.
C11_TypeMismatchRejected ==
    /\ plRet.op = "add_tasks" =>
          LET bad == Offending(plRet.before, plRet.arg)
              first == CHOOSE i \in bad : \A j \in bad : i <= j
          IN IF bad = {}
             THEN plRet.exc = NoExc /\ pl_tasks = plRet.before \o plRet.arg
             ELSE /\ plRet.exc = TypeMismatchError
                  /\ pl_tasks = plRet.before \o SubSeq(plRet.arg, 1, first - 1)
    /\ \A i \in 1..(Len(pl_tasks) - 1) : Compatible(pl_tasks[i], pl_tasks[i + 1])

\* a task was refused by a pipeline of one task, after a task that takes no
\* "source" had been accepted as the first one
C11_Witness ==
    /\ plRet.op = "add_tasks"
    /\ plRet.exc = TypeMismatchError
    /\ Len(plRet.before) = 1
    /\ SOURCE_TYPE \notin InputTypes(plRet.before[1])
    /\ pl_tasks = plRet.before

\* ---- C12 ----
\* two definitions go by the same identity
SameIdentity(a, b) == ClassName(a) = ClassName(b)

\* C12: registering a task definition under an identity that is already
\* registered fails and leaves the registered tasks unchanged; for the
\* Repository of core.py, which is handed all its task classes at once, a
\* collection with two definitions of one identity is refused.
C12_DuplicateIdentityFails ==
    /\ regRet.op = "_add_task" /\ (\E i \in 1..Len(regRet.before) :
                                      regRet.before[i].name = regRet.arg[1].name)
          => regRet.exc = AlreadyExistsError /\ task_dict = regRet.before
    /\ regRet.op = "__init__" /\ (\E i, j \in 1..Len(regRet.arg) :
                                     i < j /\ SameIdentity(regRet.arg[i], regRet.arg[j]))
          => regRet.exc # NoExc

\* C12 for the Repository of src/pypekit.py alone: _add_task under a name that
\* is registered raises and leaves _task_dict as it was, under a new name it
\* appends the entry.
C12_LegacyDuplicateNameFails ==
    regRet.op = "_add_task" =>
        IF \E i \in 1..Len(regRet.before) : regRet.before[i].name = regRet.arg[1].name
        THEN regRet.exc = AlreadyExistsError /\ task_dict = regRet.before
        ELSE regRet.exc = NoExc /\ task_dict = regRet.before \o regRet.arg

\* a second task was refused under a registered name
C12_LegacyWitness ==
    /\ regRet.op = "_add_task"
    /\ regRet.exc = AlreadyExistsError
    /\ \E i \in 1..Len(task_dict) :
          task_dict[i].name = regRet.arg[1].name /\ task_dict[i].task # regRet.arg[1].task

\* ---- C13 ----
\* the first time a task was executed under the signature
FirstExecution(sig) ==
    LET at == {i \in 1..Len(log) : log[i].kind = "exec" /\ log[i].signature = sig}
    IN log[CHOOSE i \in at : \A j \in at : i <= j]

\* every entry of the cache is the one first stored under its signature: the
\* seeded one, or what the first execution under it measured
FirstStored ==
    /\ \A sig \in DOMAIN seed : Has(cache, sig) /\ cache[sig] = seed[sig]
    /\ \A sig \in DOMAIN cache \ DOMAIN seed :
          /\ Executions(sig) # {}
          /\ cache[sig].runtime = Elapsed(FirstExecution(sig).run)

\* C13: across the run calls on one CachedExecutor the cache is never evicted
\* and never overwritten: a run keeps every signature with its entry, and every
\* signature, a seeded one too, holds the output and elapsed time first stored
\* under it.
C13_CacheNeverEvicted ==
    /\ []FirstStored
    /\ [][\A sig \in DOMAIN cache : Has(cache', sig) /\ cache'[sig] = cache[sig]]_vars

\* a seeded cache after two runs: the seeded entry was adopted in both, and an
\* entry stored by the first run was adopted by the second
C13_Witness ==
    /\ seed = SeededCache
    /\ nruns = 2
    /\ \A r \in 1..2 : \E e \in Events :
          log[e].run = r /\ log[e].kind = "adopt" /\ Has(seed, log[e].signature)
    /\ \E e, f \in Events :
          /\ log[e].run = 1 /\ log[e].kind = "exec"
          /\ log[f].run = 2 /\ log[f].kind = "adopt" /\ log[f].signature = log[e].signature

\* ---- C14 ----
\* the events of pipeline i in run r, as places of the log
EventsOf(r, i) == {e \in Events : log[e].run = r /\ log[e].pipeline = i}

\* pipeline i was done with in run r by the place e of the log: all its tasks
\* were executed or adopted, or one of them raised
DoneBefore(r, i, e) ==
    \/ \E f \in EventsOf(r, i) : f < e /\ log[f].kind = "raise"
    \/ \A k \in 1..Len(ex_pipelines[i]) : \E f \in EventsOf(r, i) : f < e /\ log[f].pos = k

\* C14: run takes the pipelines in the order supplied and the tasks of a
\* pipeline strictly in sequence: no task of a pipeline starts before every
\* pipeline in front of it has finished or failed, and a task executed under a
\* signature is adopted from the cache by every later read of that signature.
C14_SerialOrder ==
    /\ \A e, f \in Events : e < f => log[e].run <= log[f].run
    /\ \A e \in Events : \A i \in 1..(log[e].pipeline - 1) : DoneBefore(log[e].run, i, e)
    /\ \A e \in Events :
          /\ log[e].pos > 1 =>
                /\ e > 1
                /\ log[e - 1].run = log[e].run
                /\ log[e - 1].pipeline = log[e].pipeline
                /\ log[e - 1].pos = log[e].pos - 1
                /\ log[e - 1].kind # "raise"
          /\ log[e].task = ex_pipelines[log[e].pipeline][log[e].pos]
    /\ \A e, f \in Events :
          e < f /\ log[e].signature = log[f].signature /\ log[e].kind = "exec"
             => log[f].kind = "adopt"

\* in one run the first pipeline failed at its second task, and the second
\* pipeline then adopted what the first had executed and went on
C14_Witness ==
    \E e, f, g \in Events :
        /\ log[e].run = log[g].run /\ e < f /\ f < g /\ log[f].run = log[e].run
        /\ log[e].pipeline = 1 /\ log[e].kind = "exec"
        /\ log[f].pipeline = 1 /\ log[f].kind = "raise"
        /\ log[g].pipeline = 2 /\ log[g].kind = "adopt" /\ log[g].signature = log[e].signature

\* ---- C15 ----
\* the place of a task class in the order the definitions were supplied
SuppliedAt(task) == CHOOSE i \in 1..Len(supplied) : supplied[i] = task

\* the pipeline p comes before q in the depth-first order that takes the
\* children in the order supplied
BeforeInSuppliedOrder(p, q) ==
    \E k \in 1..Len(p) :
        /\ k <= Len(q)
        /\ SubSeq(p, 1, k - 1) = SubSeq(q, 1, k - 1)
        /\ p[k] # q[k]
        /\ SuppliedAt(p[k]) < SuppliedAt(q[k])

\* C15: the children of every node stand in the order the task definitions
\* were supplied, and build_pipelines returns the pipelines in the depth-first
\* order that this fixes.
C15_SuppliedOrder ==
    /\ TreeOk =>
          \A n \in DOMAIN children : \A i, j \in 1..Len(children[n]) :
              i < j => SuppliedAt(NodeTask(children[n][i])) < SuppliedAt(NodeTask(children[n][j]))
    /\ Returned /\ TreeOk =>
          \A i, j \in 1..Len(pipeRet.value) :
              i < j => BeforeInSuppliedOrder(pipeRet.value[i], pipeRet.value[j])

\* ---- C16 ----
RECURSIVE Feed(_, _, _, _)
\* the value that comes out when input_ is fed through the tasks from the i-th
\* on, each task consulting its entry of cfg
Feed(tasks, i, input_, cfg) ==
    IF i > Len(tasks) THEN input_
    ELSE Feed(tasks, i + 1, TaskRun(tasks[i], input_, cfg[i]), cfg)

\* C16: Pipeline.run(input, run_config) feeds the input through the tasks in
\* list order and returns the last output, the input itself for an empty
\* pipeline; a run_config that is supplied is attached to each task before
\* that task executes, so every task runs under it.
C16_RunFeedsThrough ==
    plRet.op = "run" /\ plRet.exc = NoExc =>
        LET seen == [i \in 1..Len(pl_tasks) |->
                        IF plRet.run_config # NoConfig THEN plRet.run_config ELSE plRet.cfg[i]]
        IN /\ plRet.value = Feed(pl_tasks, 1, plRet.input_, seen)
           /\ pl_cfg = seen

\* ---- C17 ----
\* the expanded tree of a repository that has had no build_tree call yet, its
\* Node objects named as those of the gen-th call
Expanded(gen, max_depth) ==
    LET r == [gen |-> gen, path |-> <<>>]
    IN build_tree_recursive([children |-> (r :> <<>>), leaves |-> <<>>, exc |-> NoExc],
                            r, {}, 0, max_depth)

\* the children lists of the tree under r
TreeUnder(ch, r) ==
    IF r = NoneNode THEN [n \in {} |-> <<>>]
    ELSE Restrict(ch, {n \in DOMAIN ch : Attached(ch, r, n)})

\* what build_tree(max_depth) leaves in such a repository
FreshBuild(gen, max_depth) ==
    LET st == prune_tree(Expanded(gen, max_depth))
        r == IF st.leaves = <<>> THEN NoneNode ELSE [gen |-> gen, path |-> <<>>]
    IN [root |-> r,
        tree |-> TreeUnder(st.children, r),
        leaves |-> st.leaves,
        exc |-> IF st.leaves = <<>> THEN EmptyTreeError ELSE NoExc]

\* C17: build_tree is history-independent: whatever build_tree calls came
\* before, build_tree(max_depth) leaves the tree, the leaves list and the
\* failure that it leaves in a repository on which it is the first call.
C17_HistoryIndependent ==
    lastCall = "build_tree" =>
        LET f == FreshBuild(nbuilds, treeRet.max_depth)
        IN /\ treeRet.exc = f.exc
           /\ root = f.root
           /\ TreeUnder(children, root) = f.tree
           /\ leaves = f.leaves

\* ---- C18 ----
SinkBearing(node) == SINK_TYPE \in OutputTypes(NodeTask(node))

\* m is n or lies below n
InSubtree(n, m) == m.gen = n.gen /\ Len(n.path) <= Len(m.path)
                   /\ SubSeq(m.path, 1, Len(n.path)) = n.path

\* the nodes of the tree under Repository.root
TreeNodes == {n \in DOMAIN children : root # NoneNode /\ Attached(children, root, n)}

\* C18: after build_tree succeeds on a freshly constructed repository,
\* Repository.leaves is exactly the childless nodes of the tree under root,
\* each once and each with "sink" in its output types, and a node of the
\* expanded tree survives if and only if it or a node below it has "sink" in
\* its output types, that is, if it is a sink-bearing leaf or has a surviving
\* descendant; the surviving children of a node keep their order.
C18_BottomUpCollection ==
    nbuilds = 1 /\ TreeOk =>
        LET ex == Expanded(1, treeRet.max_depth).children
        IN /\ Range(leaves) = {n \in TreeNodes : children[n] = <<>>}
           /\ NoDuplicates(leaves)
           /\ \A n \in Range(leaves) : SinkBearing(n)
           /\ TreeNodes \subseteq DOMAIN ex
           /\ \A n \in DOMAIN ex :
                 n \in TreeNodes <=> \E m \in DOMAIN ex : InSubtree(n, m) /\ SinkBearing(m)
           /\ \A n \in TreeNodes :
                 children[n] = SelectSeq(ex[n], LAMBDA c : c \in TreeNodes)

\* a first build_tree went through in which a node with children was removed
\* after all of them, and a node with "sink" became a leaf after losing all of
\* its children
C18_Witness ==
    /\ nbuilds = 1 /\ TreeOk
    /\ LET ex == Expanded(1, treeRet.max_depth).children
       IN /\ \E n \in DOMAIN ex : n \notin TreeNodes /\ ex[n] # <<>>
          /\ \E n \in Range(leaves) : ex[n] # <<>>

\* ---- C19 ----
\* every edge of the children lists ch joins type-compatible tasks
EdgesCompatible(ch) ==
    \A n \in DOMAIN ch : \A i \in 1..Len(ch[n]) : Compatible(NodeTask(n), NodeTask(ch[n][i]))

\* C19: during and after build_tree every edge parent->child of the tree has
\* an output type of the parent among the input types of the child: in the
\* expanded tree before pruning, in the tree after it, and after a call of
\* Node.add_child, which rejects a child that breaks this and then leaves the
\* children list as it was.
C19_EdgesCompatible ==
    /\ EdgesCompatible(children)
    /\ treeRet.called => EdgesCompatible(Expanded(nbuilds, treeRet.max_depth).children)
    /\ nodeRet.called =>
          IF Compatible(NodeTask(nodeRet.node), NodeTask(nodeRet.child))
          THEN nodeRet.exc = NoExc /\ children[nodeRet.node] = Append(nodeRet.before, nodeRet.child)
          ELSE nodeRet.exc # NoExc /\ children[nodeRet.node] = nodeRet.before

\* add_child rejected a child on a node below the root that has children
C19_Witness ==
    /\ nodeRet.called
    /\ nodeRet.exc # NoExc
    /\ nodeRet.node.path # <<>>
    /\ nodeRet.before # <<>>
    /\ children[nodeRet.node] = nodeRet.before

\* ---- C20 ----
\* C20: build_tree comes to an end for every set of task definitions and every
\* max_depth, cyclic type graphs included: on every path of the expanded tree
\* the task classes are pairwise distinct (the visited set grows with every
\* step down), so no path is longer than the number of task definitions, nor
\* than max_depth + 1.
C20_PathsBounded ==
    treeRet.called =>
        \A n \in DOMAIN Expanded(nbuilds, treeRet.max_depth).children :
            /\ NoDuplicates(n.path)
            /\ Len(n.path) <= Cardinality(task_classes)
            /\ Len(n.path) <= treeRet.max_depth + 1

\* build_tree() with the default max_depth on a repository in which a task
\* accepts its own output and two tasks accept each other's: a path of the
\* expanded tree takes in every task definition
C20_Witness ==
    /\ treeRet.called
    /\ treeRet.max_depth = recursionlimit
    /\ \E t \in task_classes : Compatible(t, t)
    /\ \E t, u \in task_classes : t # u /\ Compatible(t, u) /\ Compatible(u, t)
    /\ \E n \in DOMAIN Expanded(nbuilds, treeRet.max_depth).children :
          Len(n.path) = Cardinality(task_classes)

\* ---- C21 ----
\* C21: with the root at depth 0, expansion makes a leaf of every node at a
\* depth above max_depth and gives it no children, so no node lies deeper than
\* max_depth + 1 and every pipeline returned by build_pipelines has at most
\* max_depth + 1 tasks.
C21_DepthBound ==
    /\ treeRet.called =>
          LET ex == Expanded(nbuilds, treeRet.max_depth)
          IN \A n \in DOMAIN ex.children :
                /\ Len(n.path) <= treeRet.max_depth + 1
                /\ Len(n.path) > treeRet.max_depth =>
                      ex.children[n] = <<>> /\ InSeq(n, ex.leaves)
    /\ TreeOk => \A n \in TreeNodes : Len(n.path) <= treeRet.max_depth + 1
    /\ Returned /\ TreeOk =>
          \A i \in 1..Len(pipeRet.value) : Len(pipeRet.value[i]) <= treeRet.max_depth + 1

\* ---- C22 ----
\* what Pipeline.run(input_, run_config) returns for the i-th pipeline of the
\* executor taken alone, its task instances as constructed
PlainRun(i, input_, run_config) ==
    Pipeline_run(ex_pipelines[i], [k \in 1..Len(ex_pipelines[i]) |-> NoConfig],
                 input_, run_config)

\* what tasks that are functions of their input alone make of a value: the
\* steps taken, whatever run_config each task instance held
InputOnly(value) == [k \in 1..Len(value) |-> value[k].task]

\* C22: for tasks that are pure functions of their input the cached executor
\* refines plain execution: after any sequence of run calls on an executor
\* whose cache started empty, the output recorded for a pipeline that did not
\* fail is what Pipeline.run(input, run_config) returns for that pipeline
\* alone, whatever other pipelines and earlier runs put into the cache.
C22_RefinesPlainRun ==
    seed = EmptyFcn /\ runRet.called =>
        \A i \in DOMAIN results :
            results[i].runtime # NoneTime =>
                LET ps == PlainRun(i, runRet.input_, runRet.run_config)
                IN ~ps.raised /\ InputOnly(results[i].output) = InputOnly(ps.input_)

\* C22 when no two task instances of the executor go by one class name
C22_RefinesPlainRunDistinctNames ==
    (\A i \in 1..Len(ex_pipelines) : ~InSeq("A2", ex_pipelines[i])) => C22_RefinesPlainRun

\* C22 for tasks that consult the run_config attached to them: the output
\* recorded is the one Pipeline.run returns for the pipeline alone, the
\* run_config each task ran under included.
C22_RefinesPlainRunWithConfig ==
    (\A i \in 1..Len(ex_pipelines) : ~InSeq("A2", ex_pipelines[i])) /\ seed = EmptyFcn
    /\ runRet.called =>
        \A i \in DOMAIN results :
            results[i].runtime # NoneTime =>
                LET ps == PlainRun(i, runRet.input_, runRet.run_config)
                IN ~ps.raised /\ results[i].output = ps.input_

\* ---- C23 ----
\* the places of the log where a task raised
Raises == {e \in Events : log[e].kind = "raise"}

\* the steps the pipeline of the raise at place e took in that run before it
Preceding(e) ==
    {p \in EventsOf(log[e].run, log[e].pipeline) : log[p].pos < log[e].pos}

\* the failing task's signature and the longer signatures of its pipeline
FromFailing(e) ==
    {Signature(log[e].signature.hash, ex_pipelines[log[e].pipeline], k) :
        k \in log[e].pos..Len(ex_pipelines[log[e].pipeline])}

\* what C23 says of the raise at place e of the log
FailedTaskNotCached(e) ==
    /\ \A p \in Preceding(e) :
          /\ Has(cache, log[p].signature)
          /\ \A l \in Events : l > e /\ log[l].signature = log[p].signature
                                 => log[l].kind = "adopt"
    /\ \A l \in EventsOf(log[e].run, log[e].pipeline) : l <= e
    /\ \A sig \in FromFailing(e) : ~Has(cache, sig)
    /\ \A l \in Events : l > e /\ log[l].signature = log[e].signature
                           => log[l].kind = "raise"

\* C23: when a task raises inside _run_pipeline, the entries stored for the
\* tasks before it in that pipeline remain and later pipelines adopt them; the
\* pipeline takes no further step and the cache holds no entry for the failing
\* task's signature or a longer signature of that pipeline; a later pipeline
\* that shares the prefix up to and including the failing task calls the
\* failing task again, which raises again.
C23_FailedTaskRunsAgain == \A e \in Raises : FailedTaskNotCached(e)

\* C23 when no two task instances of the executor go by one class name
C23_FailedTaskRunsAgainDistinctNames ==
    (\A i \in 1..Len(ex_pipelines) : ~InSeq("A2", ex_pipelines[i]))
        => C23_FailedTaskRunsAgain

\* a task raised after a task of its pipeline had stored its entry, and a later
\* pipeline adopted that entry and called the failing task again
C23_DistinctNamesWitness ==
    /\ \A i \in 1..Len(ex_pipelines) : ~InSeq("A2", ex_pipelines[i])
    /\ \E e \in Raises :
          /\ \E p \in Preceding(e) : log[p].kind = "exec"
          /\ \E l \in Raises : l > e /\ log[l].signature = log[e].signature
          /\ \E p \in Preceding(e) : \E l \in Events :
                l > e /\ log[l].signature = log[p].signature /\ log[l].kind = "adopt"

====
